---- MODULE Spec2Model ----
(***************************************************************************)
(* Model of r2_serial_lcm_interface.h: the life cycle of a serial-LCM      *)
(* interface (r2_sli_create, r2_sli_stream, r2_sli_destroy), the stop      *)
(* signal handler and the pselect loop that frames serial input and        *)
(* publishes it.                                                           *)
(***************************************************************************)
EXTENDS Integers, Sequences, FiniteSets, TLC

(* ---------------------------------------------------------------- bounds *)
\* frame buffer capacity handed to r2_sli_create (buffer_size)
BufferSize == 2
\* bytes the kernel holds for the serial descriptor before they are read
MaxWire == 2
\* bytes that may arrive while one burst is being drained
MaxLate == 1
\* inbound bus messages queued on the LCM descriptor
MaxBus == 1
\* last value of the clock
MaxClock == 1
\* longest name handed to r2_sli_create
MaxName == 2

(* ------------------------------------------------------------- alphabets *)
\* the frame delimiter and the data bytes
NL == "nl"
Byte == {NL, "A"}

StopSignals == {"SIGHUP", "SIGINT", "SIGTERM"}
\* a signal some other handler of the process catches
OtherSignal == "SIGUSR1"

\* every signal the handler function can be called with
AllSignals == StopSignals \cup {OtherSignal, "SIGPIPE"}

AllFds == {"sfd", "lfd"}

\* characters of a name, and the names r2_sli_create is handed
NameChar == {"a", "b"}
Names == UNION { [1..n -> NameChar] : n \in 0..MaxName }

VARIABLES
    pc,            \* where the caller / r2_sli_stream stands
    fail,          \* the step of r2_sli_create that failed ("none": no step)
    ret,           \* what r2_sli_create returned: "unset", "NULL", "self"
    held,          \* resources acquired and not released
    relLog,        \* resources released, in order of release
    name,          \* the name handed to r2_sli_create
    control_channel, \* the bytes sprintf wrote for the control channel
    cc_size,       \* the size of the control_channel array
    r2_sli_keep_streaming,
    lastWrite,     \* who wrote r2_sli_keep_streaming last, and what
    sigmask,       \* the signal mask of the process
    unblocked,     \* the mask sigprocmask saved at entry
    installed,     \* signals whose handler is r2_sli_handle_stop_signal
    pending,       \* stop signals sent and not yet delivered
    caught,        \* a handler ran during the current pselect
    repeated,      \* the handler ran on a stop signal with the flag already 0
    wire,          \* bytes readable on the serial descriptor
    buf,           \* self->sio->buffer: bytes filled and not yet extracted
    frame,         \* the frame[] array of r2_sli_stream
    busPending,    \* inbound messages readable on the LCM descriptor
    rfds,          \* the fd_set of r2_sli_stream
    waitResult,    \* how the last pselect ended
    epoch_usec,    \* the timestamp local of r2_sli_stream
    now,           \* the clock
    pubs,          \* publisher calls of the current iteration
    burst,         \* bytes buffered in the current iteration
    late,          \* bytes that arrived while the current burst was drained
    dispatched,    \* lcm_handle calls of the current iteration
    handled,       \* r2_sli_management_control_handler runs of the iteration
    nstamp,        \* clock reads of the current iteration
    nfill          \* r2_buffer_fill calls of the current iteration

vars == << pc, fail, ret, held, relLog, name, control_channel, cc_size,
           r2_sli_keep_streaming, lastWrite,
           sigmask, unblocked, installed, pending, caught, repeated,
           wire, buf, frame, busPending, rfds, waitResult, epoch_usec, now,
           pubs, burst, late, dispatched, handled, nstamp, nfill >>

lifeVars == << fail, ret, held, relLog, name, control_channel, cc_size >>
sigVars  == << sigmask, unblocked, installed, pending, caught, repeated >>
flagVars == << r2_sli_keep_streaming, lastWrite >>
ioVars   == << wire, buf, frame, busPending, rfds, epoch_usec >>
iterVars == << pubs, burst, late, dispatched, handled, nstamp, nfill >>

LoopPcs  == {"top", "fdset", "pselect", "serial", "fill", "split", "publish", "refill", "bus"}
DrainPcs == {"split", "publish", "refill"}
\* where the serial descriptor is looked at: the wait and the two fills
ReadPcs  == {"pselect", "fill", "refill"}
\* where the loop spends time: the wait, the nanosleep, the publisher
SlowPcs  == {"pselect", "fill", "publish"}

(* ------------------------------------------------------------ life cycle *)
\* the steps of r2_sli_create that can fail, in the order they run
CreateSteps == << "calloc", "serial", "lcm", "subscribe" >>

\* the resource each step acquires
Acquires(step) ==
    CASE step = "calloc"    -> "self"
      [] step = "serial"    -> "sio"
      [] step = "lcm"       -> "lcm"
      [] step = "subscribe" -> "sub"

StepIndex(step) == CHOOSE i \in 1..Len(CreateSteps) : CreateSteps[i] = step

\* r2_sli_create when step f fails ("none": every step succeeds).  Each early
\* return is a bare `return NULL`: nothing acquired before it is released.
\* A failed subscribe is not tested: self is returned with a NULL subscription.
r2_sli_create(f) ==
    [ ret  |-> IF f \in {"calloc", "serial", "lcm"} THEN "NULL" ELSE "self",
      held |-> IF f = "none"
                  THEN { Acquires(CreateSteps[i]) : i \in 1..Len(CreateSteps) }
                  ELSE { Acquires(CreateSteps[i]) : i \in 1..(StepIndex(f) - 1) } ]

\* the releases r2_sli_destroy makes, in the order it makes them; self is
\* never freed
DestroyOrder == << "sio", "sub", "lcm" >>

\* char control_channel[strlen( name ) + 5]
Reserved(n) == Len(n) + 5

\* sprintf( control_channel, "%s.ctrl", name ): the bytes written, with the
\* terminator
Sprintf(n) == n \o << ".", "c", "t", "r", "l" >> \o << "NUL" >>

\* the state before r2_sli_create, for a name and a value of the flag
InitWith(n, flag) ==
    /\ pc = "start"
    /\ fail = "none"
    /\ ret = "unset"
    /\ held = {}
    /\ relLog = << >>
    /\ name = n
    /\ control_channel = << >>
    /\ cc_size = 0
    /\ r2_sli_keep_streaming = flag
    /\ lastWrite = [by |-> IF flag = 1 THEN "static" ELSE "earlier", val |-> flag]
    /\ sigmask = {}
    /\ unblocked = {}
    /\ installed = {}
    /\ pending = {}
    /\ caught = FALSE
    /\ repeated = FALSE
    /\ wire = << >>
    /\ buf = << >>
    /\ frame = << >>
    /\ busPending = 0
    /\ rfds = {}
    /\ waitResult = "none"
    /\ epoch_usec = 0
    /\ now = 0
    /\ pubs = << >>
    /\ burst = << >>
    /\ late = 0
    /\ dispatched = 0
    /\ handled = 0
    /\ nstamp = 0
    /\ nfill = 0

\* the process starts: static int r2_sli_keep_streaming = 1
Init == InitWith(<< "a" >>, 1)

\* the caller constructs the interface
Create ==
    /\ pc = "start"
    /\ \E f \in {"none", "calloc", "serial", "lcm", "subscribe"} :
          /\ fail' = f
          /\ ret' = r2_sli_create(f).ret
          /\ held' = r2_sli_create(f).held
          /\ pc' = IF r2_sli_create(f).ret = "NULL" THEN "failed" ELSE "created"
          /\ IF f \in {"none", "subscribe"}
                THEN /\ cc_size' = Reserved(name)
                     /\ control_channel' = Sprintf(name)
                ELSE UNCHANGED << cc_size, control_channel >>
    /\ UNCHANGED << relLog, name, flagVars, sigVars, ioVars, waitResult, now, iterVars >>

\* the caller tears the interface down.  With a NULL subscription the
\* generated unsubscribe dereferences it: the process may die there.
Destroy ==
    /\ pc \in {"created", "stopped"}
    /\ \/ /\ relLog' = relLog \o SelectSeq(DestroyOrder, LAMBDA r : r \in held)
          /\ held' = held \ { DestroyOrder[i] : i \in 1..Len(DestroyOrder) }
          /\ pc' = "destroyed"
       \/ /\ "sub" \notin held
          /\ relLog' = relLog \o << DestroyOrder[1] >>
          /\ held' = held \ { DestroyOrder[1] }
          /\ pc' = "crashed"
    /\ UNCHANGED << fail, ret, name, control_channel, cc_size, flagVars, sigVars,
                    ioVars, waitResult, now, iterVars >>

(* --------------------------------------------------------------- signals *)
\* a loop that blocks no signal before it waits
blocked_none == {}

\* a loop that leaves SIGHUP out of the set it blocks
blocked_nohup == {"SIGINT", "SIGTERM"}

\* the set `blocked` r2_sli_stream builds and blocks at entry
blocked == {"SIGHUP", "SIGINT", "SIGTERM"}

\* the handler without its SIGHUP label: SIGHUP falls to the default branch
r2_sli_handle_stop_signal_nohup(signal) ==
    IF signal \in {"SIGINT", "SIGTERM"} THEN 0 ELSE 1

\* the handler with the two assignments swapped
r2_sli_handle_stop_signal_swapped(signal) ==
    IF signal \in {"SIGHUP", "SIGINT", "SIGTERM"} THEN 1 ELSE 0

\* r2_sli_handle_stop_signal: the value it leaves in r2_sli_keep_streaming
r2_sli_handle_stop_signal(signal) ==
    IF signal \in {"SIGHUP", "SIGINT", "SIGTERM"} THEN 0 ELSE 1

\* the mask pselect installs for the duration of the wait
WaitMask == unblocked

\* the mask in force: pselect swaps it atomically while it waits
CurMask == IF pc = "pselect" THEN WaitMask ELSE sigmask

\* a stop signal is sent to the process while it streams
SignalArrives ==
    /\ pc \in LoopPcs
    /\ \E sig \in installed \ pending : pending' = pending \cup {sig}
    /\ UNCHANGED << pc, lifeVars, flagVars, sigmask, unblocked, installed, caught,
                    repeated, ioVars, waitResult, now, iterVars >>

\* a pending signal the mask in force lets through is delivered: its handler
\* runs; inside pselect that marks the wait as interrupted
SignalDeliver ==
    /\ pc \in LoopPcs
    /\ \E sig \in (pending \cap installed) \ CurMask :
          /\ pending' = pending \ {sig}
          /\ r2_sli_keep_streaming' = r2_sli_handle_stop_signal(sig)
          /\ lastWrite' = [by |-> "handler", val |-> r2_sli_handle_stop_signal(sig)]
          /\ repeated' = (repeated \/ (sig \in StopSignals /\ r2_sli_keep_streaming = 0))
    /\ caught' = (pc = "pselect")
    /\ UNCHANGED << pc, lifeVars, sigmask, unblocked, installed, ioVars, waitResult, now, iterVars >>

\* a signal with a handler of its own is delivered during the wait: it leaves
\* the flag alone and makes pselect return EINTR
OtherSignalCaught ==
    /\ pc = "pselect"
    /\ ~caught
    /\ OtherSignal \notin CurMask
    /\ caught' = TRUE
    /\ UNCHANGED << pc, lifeVars, flagVars, sigmask, unblocked, installed, pending,
                    repeated, ioVars, waitResult, now, iterVars >>

(* ----------------------------------------------------------- environment *)
\* a byte arrives on the serial line; while a burst is drained at most
\* MaxLate more arrive
SerialArrives ==
    /\ pc \in ReadPcs
    /\ Len(wire) < MaxWire
    /\ pc \in DrainPcs => late < MaxLate
    /\ \E b \in Byte : wire' = Append(wire, b)
    /\ late' = IF pc \in DrainPcs THEN late + 1 ELSE late
    /\ UNCHANGED << pc, lifeVars, flagVars, sigVars, buf, frame, busPending, rfds,
                    epoch_usec, waitResult, now, pubs, burst, dispatched, handled,
                    nstamp,
                    nfill >>

\* a message arrives on the bus
BusArrives ==
    /\ pc = "pselect"
    /\ busPending < MaxBus
    /\ busPending' = busPending + 1
    /\ UNCHANGED << pc, lifeVars, flagVars, sigVars, wire, buf, frame, rfds,
                    epoch_usec, waitResult, now, iterVars >>

\* time passes
Tick ==
    /\ pc \in SlowPcs
    /\ now < MaxClock
    /\ now' = now + 1
    /\ UNCHANGED << pc, lifeVars, flagVars, sigVars, ioVars, waitResult, iterVars >>


(* ---------------------------------------------------------- frame buffer *)
Min(a, b) == IF a < b THEN a ELSE b

\* r2_buffer_fill: append what the descriptor holds, up to the capacity, without
\* touching the bytes not yet consumed
r2_buffer_fill(b, w) ==
    LET n == Min(BufferSize - Len(b), Len(w))
    IN  [ buf |-> b \o SubSeq(w, 1, n), wire |-> SubSeq(w, n + 1, Len(w)),
          moved |-> SubSeq(w, 1, n) ]

\* position of the first delimiter of b, 0 when it holds none
DelimPos(b) ==
    IF \E i \in 1..Len(b) : b[i] = NL
       THEN CHOOSE i \in 1..Len(b) : b[i] = NL /\ \A j \in 1..(i - 1) : b[j] # NL
       ELSE 0

\* the splitter: the next complete frame is copied out and consumed, or nothing
\* changes and it reports that it needs more data
splitter(b) ==
    IF DelimPos(b) = 0
       THEN [ ok |-> FALSE, frame |-> << >>, rest |-> b ]
       ELSE [ ok |-> TRUE, frame |-> SubSeq(b, 1, DelimPos(b) - 1),
              rest |-> SubSeq(b, DelimPos(b) + 1, Len(b)) ]

(* --------------------------------------------------------- r2_sli_stream *)
\* a loop that never looks at the flag
LoopCond_forever(flag) == TRUE

\* while (r2_sli_keep_streaming)
LoopCond(flag) == flag # 0

\* a default branch that only reports the error
OnWaitError_retry(flag) == flag

\* the default branch of the errno switch
OnWaitError(flag) == 0

\* the ready branch taken whatever pselect returned, short of a fatal error
AfterWait_noelse(result, set) ==
    IF result # "EFATAL" THEN (IF "sfd" \in set THEN "serial" ELSE "bus") ELSE "top"

\* if (-1 != pselect(...)) { serial first, then LCM } else { switch errno }
AfterWait(result, set) ==
    IF result = "ready" THEN (IF "sfd" \in set THEN "serial" ELSE "bus") ELSE "top"

\* a loop that reads the clock once, before it starts, and never again
Stamp_stale == epoch_usec

\* epoch_usec = r2_epoch_usec_now()
Stamp == now

\* a publisher call that reads the clock itself
PublishCall_fresh(f, t) == [ data |-> f, epoch_usec |-> now ]

\* publisher(self, frame, epoch_usec)
PublishCall(f, t) == [ data |-> f, epoch_usec |-> t ]

\* descriptors pselect would report readable
Ready == (IF wire # << >> THEN {"sfd"} ELSE {}) \cup (IF busPending > 0 THEN {"lfd"} ELSE {})

\* a loop that tears the interface down when it leaves
OnReturn_destroy(h) == h \ {"sio", "sub", "lcm"}

\* what r2_sli_stream holds of the interface when it returns: the loop's exit
\* is followed by no release
OnReturn(h) == h

\* a loop that calls lcm_handle in every iteration
DispatchCond_always(set) == TRUE

\* FD_ISSET( lfd, &rfds ) guards the one lcm_handle call of an iteration
DispatchCond(set) == "lfd" \in set

\* entry: block the stop signals (SIG_BLOCK with a valid set does not fail),
\* install the handler for the three stop signals, clear frame[], reset the flag
StreamEntry ==
    /\ unblocked' = sigmask
    /\ sigmask' = sigmask \cup blocked
    /\ installed' = installed \cup {"SIGHUP", "SIGINT", "SIGTERM"}
    /\ frame' = << >>
    /\ epoch_usec' = 0
    /\ r2_sli_keep_streaming' = 1
    /\ lastWrite' = [by |-> "entry", val |-> 1]
    /\ pc' = "top"
    /\ UNCHANGED << lifeVars, pending, caught, repeated, wire, buf,
                    busPending, rfds, waitResult, now, iterVars >>

\* the caller runs r2_sli_stream on the interface it created
StreamEnter ==
    /\ pc = "created"
    /\ StreamEntry

\* the caller runs r2_sli_stream again after it returned
StreamAgain ==
    /\ pc = "stopped"
    /\ StreamEntry

\* the loop condition
LoopTest ==
    /\ pc = "top"
    /\ IF LoopCond(r2_sli_keep_streaming)
          THEN /\ pc' = "fdset"
               /\ rfds' = {}
               /\ pubs' = << >>
               /\ burst' = << >>
               /\ late' = 0
               /\ dispatched' = 0
               /\ handled' = 0
               /\ nstamp' = 0
               /\ nfill' = 0
               /\ UNCHANGED held
          ELSE /\ pc' = "stopped"
               /\ held' = OnReturn(held)
               /\ UNCHANGED << rfds, iterVars >>
    /\ UNCHANGED << fail, ret, relLog, name, control_channel, cc_size, flagVars,
                    sigVars, wire, buf, frame, busPending, epoch_usec,
                    waitResult, now >>

\* FD_SET of both descriptors, then pselect is entered: the mask is swapped
\* and the wait begins in one step
EnterWait ==
    /\ pc = "fdset"
    /\ rfds' = rfds \cup AllFds
    /\ waitResult' = "none"
    /\ pc' = "pselect"
    /\ UNCHANGED << lifeVars, flagVars, sigVars, wire, buf, frame, busPending,
                    epoch_usec, now, iterVars >>

\* pselect returns the descriptors that are readable.  Whether a signal that is
\* pending when a descriptor is already readable is delivered first is left
\* to the kernel: this return is possible with a signal pending, and also
\* after a handler ran
PselectReady ==
    /\ pc = "pselect"
    /\ Ready \cap rfds # {}
    /\ rfds' = Ready \cap rfds
    /\ waitResult' = "ready"
    /\ caught' = FALSE
    /\ pc' = AfterWait("ready", Ready \cap rfds)
    /\ UNCHANGED << lifeVars, flagVars, sigmask, unblocked, installed, pending,
                    repeated, wire, buf, frame, busPending, epoch_usec,
                    now, iterVars >>

\* pselect returns -1 with EINTR: a handler ran while it waited
PselectInterrupted ==
    /\ pc = "pselect"
    /\ caught
    /\ waitResult' = "EINTR"
    /\ caught' = FALSE
    /\ pc' = AfterWait("EINTR", rfds)
    /\ UNCHANGED << lifeVars, flagVars, sigmask, unblocked, installed, pending,
                    repeated, ioVars, now, iterVars >>

\* pselect returns -1 with another errno
PselectError ==
    /\ pc = "pselect"
    /\ waitResult' = "EFATAL"
    /\ caught' = FALSE
    /\ r2_sli_keep_streaming' = OnWaitError(r2_sli_keep_streaming)
    /\ lastWrite' = [by |-> "loop", val |-> OnWaitError(r2_sli_keep_streaming)]
    /\ pc' = AfterWait("EFATAL", rfds)
    /\ UNCHANGED << lifeVars, sigmask, unblocked, installed, pending, repeated, ioVars, now, iterVars >>

\* the serial descriptor is ready: take the timestamp
SerialStamp ==
    /\ pc = "serial"
    /\ epoch_usec' = Stamp
    /\ nstamp' = nstamp + 1
    /\ pc' = "fill"
    /\ UNCHANGED << lifeVars, flagVars, sigVars, wire, buf, frame, busPending,
                    rfds, waitResult, now, pubs, burst, late, dispatched,
                    handled, nfill >>

\* after the nanosleep: the first r2_buffer_fill
FirstFill ==
    /\ pc = "fill"
    /\ buf' = r2_buffer_fill(buf, wire).buf
    /\ wire' = r2_buffer_fill(buf, wire).wire
    /\ burst' = buf \o r2_buffer_fill(buf, wire).moved
    /\ nfill' = nfill + 1
    /\ pc' = "split"
    /\ UNCHANGED << lifeVars, flagVars, sigVars, frame, busPending, rfds,
                    epoch_usec, waitResult, now, pubs, late, dispatched,
                    handled, nstamp >>

\* while (splitter(buffer, frame, frame_size))
Split ==
    /\ pc = "split"
    /\ IF splitter(buf).ok
          THEN /\ frame' = splitter(buf).frame
               /\ buf' = splitter(buf).rest
               /\ pc' = "publish"
          ELSE /\ pc' = "bus"
               /\ UNCHANGED << frame, buf >>
    /\ UNCHANGED << lifeVars, flagVars, sigVars, wire, busPending, rfds,
                    epoch_usec, waitResult, now, iterVars >>

\* publisher(self, frame, epoch_usec)
Publish ==
    /\ pc = "publish"
    /\ pubs' = Append(pubs, PublishCall(frame, epoch_usec))
    /\ pc' = "refill"
    /\ UNCHANGED << lifeVars, flagVars, sigVars, ioVars, waitResult, now, burst,
                    late, dispatched, handled, nstamp, nfill >>

\* r2_buffer_fill after a publish
Refill ==
    /\ pc = "refill"
    /\ buf' = r2_buffer_fill(buf, wire).buf
    /\ wire' = r2_buffer_fill(buf, wire).wire
    /\ burst' = burst \o r2_buffer_fill(buf, wire).moved
    /\ nfill' = nfill + 1
    /\ pc' = "split"
    /\ UNCHANGED << lifeVars, flagVars, sigVars, frame, busPending, rfds,
                    epoch_usec, waitResult, now, pubs, late, dispatched,
                    handled, nstamp >>

\* if (FD_ISSET(lfd, &rfds)) lcm_handle(self->lcm)
BusCheck ==
    /\ pc = "bus"
    /\ IF DispatchCond(rfds)
          THEN /\ busPending' = busPending - 1
               /\ dispatched' = dispatched + 1
               /\ handled' \in IF "sub" \in held THEN {handled, handled + 1}
                                                ELSE {handled}
          ELSE UNCHANGED << busPending, dispatched, handled >>
    /\ pc' = "top"
    /\ UNCHANGED << lifeVars, flagVars, sigVars, wire, buf, frame, rfds,
                    epoch_usec, waitResult, now, pubs, burst, late, nstamp, nfill >>

\* r2_sli_handle_stop_signal called with a signal of the caller's choice
HandlerCall(signal) ==
    /\ pc \in {"start", "created", "failed"}
    /\ r2_sli_keep_streaming' = r2_sli_handle_stop_signal(signal)
    /\ lastWrite' = [by |-> "handler", val |-> r2_sli_handle_stop_signal(signal)]
    /\ UNCHANGED << pc, lifeVars, sigVars, ioVars, waitResult, now, iterVars >>

\* the steps of r2_sli_stream
Program ==
    \/ LoopTest
    \/ EnterWait
    \/ PselectReady
    \/ PselectInterrupted
    \/ SerialStamp
    \/ FirstFill
    \/ Split
    \/ Publish
    \/ Refill
    \/ BusCheck

Next ==
    \/ Create
    \/ StreamEnter
    \/ Destroy
    \/ SignalArrives
    \/ SignalDeliver
    \/ OtherSignalCaught
    \/ SerialArrives
    \/ BusArrives
    \/ Tick
    \/ PselectError
    \/ Program

Spec == Init /\ [][Next]_vars

\* the same process when the caller runs r2_sli_stream more than once
NextAgain ==
    \/ Next
    \/ StreamAgain

SpecAgain == Init /\ [][NextAgain]_vars

\* the functions of the header called on their own: r2_sli_create with every
\* name, the handler with every signal and either value of the flag
InitCalls == \E n \in Names, flag \in {0, 1} : InitWith(n, flag)

NextCalls ==
    \/ Create
    \/ \E signal \in AllSignals : HandlerCall(signal)

SpecCalls == InitCalls /\ [][NextCalls]_vars

\* r2_sli_stream keeps running while a step of it can be taken, and a wait
\* entered again and again with a stop signal pending does not find a
\* descriptor ready first every time
LiveSpec == Spec /\ WF_vars(Program) /\ SF_vars(SignalDeliver)

TypeOK ==
    /\ pc \in LoopPcs \cup {"start", "created", "failed", "stopped", "destroyed", "crashed"}
    /\ r2_sli_keep_streaming \in {0, 1}
    /\ Len(buf) <= BufferSize
    /\ Len(wire) <= MaxWire
    /\ pending \subseteq StopSignals
    /\ busPending \in 0..MaxBus
    /\ handled \in 0..1
    /\ Len(name) <= MaxName


(* ================================================================ claims *)
Returned == pc \in {"stopped", "destroyed", "crashed"}

\* the complete delimiter-terminated frames of a byte sequence, in order
RECURSIVE CompleteFrames(_)
CompleteFrames(s) ==
    IF DelimPos(s) = 0
       THEN << >>
       ELSE << SubSeq(s, 1, DelimPos(s) - 1) >>
            \o CompleteFrames(SubSeq(s, DelimPos(s) + 1, Len(s)))

\* the serial branch of an iteration has run to the end of its drain
DrainDone == nfill > 0 /\ pc \in {"bus", "top", "stopped"}

(* C1: when the serial open or the bus open fails, r2_sli_create returns NULL
   and holds none of the resources it acquired before the failing step. *)
C1_FailedCreateReleasesAll ==
    fail \in {"serial", "lcm"} => (ret = "NULL" /\ held = {})

(* C2: a stop signal sent at any point after r2_sli_stream entered its loop
   (during the wait, between the loop condition and the wait, during a burst)
   leads to the loop's return; and once the handler has cleared the flag in a
   wait with no descriptor ready, the loop returns without a publisher call
   and without a dispatch. *)
C2_StopSignalNeverLost ==
    /\ (pc \in LoopPcs /\ pending # {}) ~> Returned
    /\ [][ /\ ( pc = "pselect" /\ caught /\ r2_sli_keep_streaming = 0
                /\ Ready = {} /\ pc' # "pselect" )
              => ( pc' = "top" /\ pubs' = << >> /\ dispatched' = 0 )
           /\ ( pc = "top" /\ r2_sli_keep_streaming = 0 /\ pc' # "top" )
              => ( pc' = "stopped" /\ UNCHANGED << pubs, dispatched >> ) ]_vars

C2_Witness ==
    /\ pc = "stopped"
    /\ lastWrite = [by |-> "handler", val |-> 0]
    /\ waitResult = "EINTR"
    /\ pubs = << >>
    /\ dispatched = 0

(* C3: when the drain of one iteration ends, the publisher has been called once
   per complete frame of the bytes buffered in that iteration (what the buffer
   held plus what the fills absorbed), in stream order, each call with that
   frame's bytes, all calls with one timestamp; and the drain ended because
   the splitter found no further complete frame. *)
C3_OnePublishPerFrame ==
    DrainDone =>
        /\ [ i \in 1..Len(pubs) |-> pubs[i].data ] = CompleteFrames(burst)
        /\ \A i, j \in 1..Len(pubs) : pubs[i].epoch_usec = pubs[j].epoch_usec
        /\ ~ splitter(buf).ok

C3_Witness ==
    /\ DrainDone
    /\ Len(pubs) >= 2
    /\ late > 0
    /\ pubs[1].data # pubs[2].data

(* C4: while r2_sli_stream runs, the flag never goes from false back to true,
   so it goes from true to false at most once, whatever stop signals arrive. *)
C4_FlagFalseAtMostOnce ==
    [][ (pc \in LoopPcs /\ r2_sli_keep_streaming = 0)
            => r2_sli_keep_streaming' = 0 ]_vars

C4_Witness ==
    /\ repeated
    /\ r2_sli_keep_streaming = 0
    /\ pc \in LoopPcs

(* C5: with the flag false no wait is started; the loop condition that sees it
   false leads to STOPPED, and after STOPPED there is no wait, no publisher
   call and no dispatch. *)
C5_NoWaitOnceFalse ==
    [][ /\ ( r2_sli_keep_streaming = 0 /\ pc' = "pselect" ) => pc = "pselect"
        /\ ( r2_sli_keep_streaming = 0 /\ pc = "top" /\ pc' # "top" )
              => pc' = "stopped"
        /\ Returned => ( Returned' /\ UNCHANGED << pubs, dispatched >> ) ]_vars

C5_Witness ==
    /\ pc = "stopped"
    /\ waitResult = "ready"
    /\ lastWrite = [by |-> "handler", val |-> 0]
    /\ Len(pubs) > 0

(* C6: r2_sli_destroy of a fully constructed interface releases, in this
   order and each once: the control subscription, the bus handle, the serial
   handle, the state. *)
C6_DestroyReverseOrder ==
    (pc = "destroyed" /\ fail = "none")
        => (relLog = << "sub", "lcm", "sio", "self" >> /\ held = {})

(* C7: when the subscribe fails, r2_sli_create returns NULL and holds nothing. *)
C7_SubscribeFailureFatal ==
    fail = "subscribe" => (ret = "NULL" /\ held = {})

(* C8: after a wait that failed with an errno other than EINTR the loop only
   reaches its condition and STOPPED: no further wait, and that iteration
   made no clock read, no fill, no publisher call and no dispatch. *)
C8_WaitErrorFatal ==
    waitResult = "EFATAL" =>
        /\ pc \in {"top"} \cup {"stopped", "destroyed", "crashed"}
        /\ pubs = << >> /\ dispatched = 0 /\ nstamp = 0 /\ nfill = 0

C8_Witness ==
    /\ pc = "stopped"
    /\ waitResult = "EFATAL"

(* C9: a wait that ends with EINTR goes back to the loop condition having
   touched neither descriptor (no timestamp, no fill, no publisher call, no
   dispatch) nor the flag; from there the loop stops if the flag is false
   and otherwise waits again on both descriptors. *)
C9_InterruptedWait ==
    [][ /\ ( pc = "pselect" /\ waitResult' = "EINTR" )
              => ( pc' = "top"
                   /\ UNCHANGED << r2_sli_keep_streaming, epoch_usec, wire, buf,
                                   frame, busPending, iterVars >> )
        /\ ( pc = "top" /\ waitResult = "EINTR" /\ pc' # "top" )
              => ( IF r2_sli_keep_streaming = 0 THEN pc' = "stopped"
                                                ELSE pc' = "fdset" )
        /\ ( pc = "fdset" /\ pc' # "fdset" )
              => ( pc' = "pselect" /\ rfds' = AllFds ) ]_vars

C9_Witness ==
    /\ pc = "fdset"
    /\ waitResult = "EINTR"
    /\ r2_sli_keep_streaming = 1
    /\ nstamp = 0 /\ nfill = 0 /\ pubs = << >> /\ dispatched = 0

(* C10, as stated: after the entry reset only the handler writes the flag. *)
C10_OnlyHandlerWrites ==
    pc \in LoopPcs \cup {"stopped"} => lastWrite.by \in {"entry", "handler"}

(* C10, amended: after the entry reset the flag is written only with false,
   by the handler on a stop signal or by the loop itself after a wait that
   failed with an errno other than EINTR; on every other path the loop only
   reads it. *)
C10_FlagWrittenFalseOnly ==
    pc \in LoopPcs \cup {"stopped"} =>
        /\ lastWrite \in { [by |-> "entry", val |-> 1],
                           [by |-> "handler", val |-> 0],
                           [by |-> "loop", val |-> 0] }
        /\ r2_sli_keep_streaming = lastWrite.val
        /\ lastWrite.by = "loop" => waitResult = "EFATAL"

C10_Witness ==
    /\ pc = "stopped"
    /\ lastWrite = [by |-> "loop", val |-> 0]

(* C11: r2_sli_handle_stop_signal treats exactly SIGHUP, SIGINT and SIGTERM as
   stop signals; called with any other signal it leaves the flag as it was,
   whatever its value, so it does not undo an earlier stop. *)
C11_OtherSignalKeepsFlag ==
    [][ \A signal \in AllSignals :
          HandlerCall(signal) =>
              IF signal \in StopSignals
                 THEN r2_sli_keep_streaming' = 0
                 ELSE r2_sli_keep_streaming' = r2_sli_keep_streaming ]_vars

(* C12: r2_sli_stream releases no part of the interface: no step of it changes
   what is held or released, and on every exit it returns with the serial
   handle, the bus handle and the control subscription as r2_sli_create left
   them, so that the one r2_sli_destroy that follows is what releases them. *)
C12_StreamReleasesNothing ==
    /\ [][ ( pc \in LoopPcs \cup {"created"} /\ pc' \in LoopPcs \cup {"stopped"} )
              => UNCHANGED << held, relLog >> ]_vars
    /\ [] ( pc = "stopped" =>
              /\ held = r2_sli_create(fail).held
              /\ {"sio", "lcm"} \subseteq held
              /\ fail = "none" => "sub" \in held
              /\ relLog = << >> )

C12_Witness ==
    /\ pc = "stopped"
    /\ waitResult = "EFATAL"
    /\ held = {"self", "sio", "lcm", "sub"}
    /\ relLog = << >>

(* C13: in each iteration lcm_handle is called exactly once when the wait
   reported the bus descriptor ready and not at all otherwise; the control
   handler runs only inside that call, at the end of the iteration after the
   serial drain, never in a signal handler's step and never between the
   framing and publishing steps. *)
C13_DispatchOncePerReadyBus ==
    /\ [] ( pc = "top" /\ waitResult # "none" =>
              /\ dispatched = IF waitResult = "ready" /\ "lfd" \in rfds
                                 THEN 1 ELSE 0
              /\ handled <= dispatched )
    /\ [] ( pc \in LoopPcs \ {"top"} => ( dispatched = 0 /\ handled = 0 ) )
    /\ [][ handled' > handled =>
              /\ pc = "bus" /\ pc' = "top"
              /\ dispatched' = dispatched + 1
              /\ UNCHANGED << pubs, buf, frame, flagVars >> ]_vars

C13_Witness ==
    /\ pc = "top"
    /\ waitResult = "ready"
    /\ rfds = AllFds
    /\ dispatched = 1
    /\ handled = 1
    /\ Len(pubs) > 0

\* the buffer is full and holds no delimiter: a frame longer than the capacity
Overflowed == Len(buf) = BufferSize /\ DelimPos(buf) = 0

(* C14: a serial frame longer than the buffer's capacity neither breaks the
   buffer's bookkeeping (the valid bytes never exceed the capacity) nor stalls
   the loop: with bytes still to read, the overflowed buffer is drained again
   (or the loop has returned), so that later frames are extracted. *)
C14_OverlongFrameNoStall ==
    /\ [] ( Len(buf) <= BufferSize )
    /\ ( Overflowed /\ wire # << >> /\ pc \in LoopPcs )
          ~> ( ~Overflowed \/ Returned )

(* C15: the clock is read exactly once in an iteration whose wait reported the
   serial descriptor ready and never in any other; the read comes before the
   nanosleep and the first r2_buffer_fill; and every publisher call of an
   iteration carries the value read in that iteration. *)
C15_ClockReadOncePerSerialReady ==
    /\ [] ( ( pc \in {"bus", "top", "stopped"} /\ waitResult = "ready" )
              => nstamp = IF "sfd" \in rfds THEN 1 ELSE 0 )
    /\ [] ( pc \in {"fill", "split", "publish", "refill"} => nstamp = 1 )
    /\ [] ( waitResult \in {"EINTR", "EFATAL"} => nstamp = 0 )
    /\ [] ( ( nfill > 0 \/ pubs # << >> ) => nstamp = 1 )
    /\ [] ( \A i \in 1..Len(pubs) : pubs[i].epoch_usec = epoch_usec )
    /\ [][ /\ nstamp' > nstamp
               => /\ pc = "serial" /\ pc' = "fill"
                  /\ nstamp = 0 /\ nstamp' = 1
                  /\ nfill = 0 /\ pubs = << >>
                  /\ epoch_usec' = now
           /\ ( pc \in LoopPcs /\ epoch_usec' # epoch_usec )
               => nstamp' > nstamp ]_vars

C15_Witness ==
    /\ DrainDone
    /\ nstamp = 1
    /\ Len(pubs) >= 2
    /\ pubs[1].epoch_usec > 0

(* C16: from the entry of the loop on, the stop signals are blocked everywhere
   but in the wait, so the handler runs only while the loop is in pselect, and
   the flag does not change between the return of the wait and the next test
   of the loop condition. *)
C16_HandlerOnlyInWait ==
    /\ [] ( pc \in LoopPcs \ {"pselect"} => StopSignals \subseteq CurMask )
    /\ [][ ( pc \in LoopPcs \ {"pselect"} /\ pc' \in LoopPcs )
              => ( UNCHANGED flagVars /\ pending \subseteq pending' ) ]_vars
    /\ [][ ( pc \in LoopPcs /\ lastWrite' # lastWrite /\ lastWrite'.by = "handler" )
              => ( pc = "pselect" /\ pc' = "pselect" ) ]_vars

C16_Witness ==
    /\ pc = "publish"
    /\ pending # {}
    /\ r2_sli_keep_streaming = 1
    /\ lastWrite.by = "entry"

(* C17: every invocation of r2_sli_stream can be stopped, a second one in the
   same process included: each entry resets the flag to true, and in every
   wait the mask handed to pselect leaves SIGHUP, SIGINT and SIGTERM
   unblocked, so a stop signal delivered in the wait ends the loop. *)
C17_EveryInvocationStoppable ==
    /\ [][ ( pc \in {"created", "stopped"} /\ pc' = "top" )
              => r2_sli_keep_streaming' = 1 ]_vars
    /\ [] ( pc = "pselect" => StopSignals \cap WaitMask = {} )

(* C18: r2_sli_stream returns with the process signal mask as it found it at
   entry. *)
C18_MaskRestoredOnReturn ==
    pc = "stopped" => sigmask = unblocked

(* C19: for a name of any length r2_sli_create derives the control channel as
   the name followed by ".ctrl", and the bytes it writes for it, terminator
   included, fit the storage it reserved. *)
C19_ControlChannelFits ==
    control_channel # << >> =>
        /\ SubSeq(control_channel, 1, Len(control_channel) - 1)
              = name \o << ".", "c", "t", "r", "l" >>
        /\ Len(control_channel) <= cc_size

====
